---------------------------- MODULE Spec2Model ----------------------------
(***************************************************************************)
(* Signer WebSocket client of manta-pay (signer/client/websocket.rs).      *)
(*                                                                         *)
(* The client owns one WebSocket stream.  Each of the six operations of    *)
(* signer::Connection runs the generic exchange Client::send: encode the   *)
(* Request envelope, send it as a text message, await the next item of the *)
(* stream and decode it as the operation's reply type.  The stream, the    *)
(* remote signer and the tasks that call the client are the environment.   *)
(***************************************************************************)
EXTENDS Integers, Sequences, FiniteSets, TLC

(* Bounds of the model *)
NumCallers == 2
MaxCalls == 2
MaxFairCalls == 1

Callers == 1..NumCallers

(***************************************************************************)
(* The six operations, their command identifiers, request and reply types  *)
(***************************************************************************)
Ops ==
    {"sync", "sign", "address", "transaction_data", "identity_proof",
     "sign_with_transaction_data"}

RequestType(op) ==
    CASE op = "sync" -> "SyncRequest"
      [] op = "sign" -> "SignRequest"
      [] op = "address" -> "GetRequest"
      [] op = "transaction_data" -> "TransactionDataRequest"
      [] op = "identity_proof" -> "IdentityRequest"
      [] op = "sign_with_transaction_data" -> "SignRequest"

ReplyType(op) ==
    CASE op = "sync" -> "SyncResult"
      [] op = "sign" -> "SignResult"
      [] op = "address" -> "OptionAddress"
      [] op = "transaction_data" -> "TransactionDataResponse"
      [] op = "identity_proof" -> "IdentityResponse"
      [] op = "sign_with_transaction_data" -> "SignWithTransactionDataResult"

(* A request value the JSON encoder refuses (to_string returns Err). *)
Unencodable == "SignRequest#unencodable"

(* The request values a caller may pass. *)
RequestValues(op) ==
    CASE op = "address" -> {"Get"}
      [] RequestType(op) = "SignRequest" -> {"SignRequest#1", Unencodable}
      [] OTHER -> {RequestType(op) \o "#1"}

(* Reply values: [tag, body]; tag is the variant, body the opaque content. *)
Val(tag, body) == [tag |-> tag, body |-> body]

ReplyTypes == {ReplyType(op) : op \in Ops}

ReplyBodies(type, tag) ==
    CASE type = "SyncResult" /\ tag = "Ok" -> {"SyncResponse#1"}
      [] type = "SyncResult" /\ tag = "Err" -> {"SyncError#1"}
      [] type = "SignResult" /\ tag = "Ok" -> {"SignResponse#1"}
      [] type = "SignResult" /\ tag = "Err" -> {"SignError#1"}
      [] type = "SignWithTransactionDataResult" /\ tag = "Ok" ->
            {"SignWithTransactionDataResponse#1"}
      [] type = "SignWithTransactionDataResult" /\ tag = "Err" -> {"SignError#1"}
      [] type = "OptionAddress" /\ tag = "Some" -> {"Address#1"}
      [] type = "OptionAddress" /\ tag = "None" -> {""}
      [] type = "TransactionDataResponse" /\ tag = "Val" ->
            {"TransactionDataResponse#1"}
      [] type = "IdentityResponse" /\ tag = "Val" -> {"IdentityResponse#1"}
      [] OTHER -> {}

ReplyTags(type) ==
    CASE type \in {"SyncResult", "SignResult", "SignWithTransactionDataResult"} ->
            {"Ok", "Err"}
      [] type = "OptionAddress" -> {"None", "Some"}
      [] OTHER -> {"Val"}

ReplyValues(type) ==
    UNION {{Val(tag, b) : b \in ReplyBodies(type, tag)} : tag \in ReplyTags(type)}

(***************************************************************************)
(* JSON texts are sequences of tokens.                                     *)
(***************************************************************************)
Quote(s) == "\"" \o s \o "\""

(* serde_json::to_string of a request body: a unit variant is its name as  *)
(* a JSON string, any other request is an opaque JSON value.               *)
EncodeRequestBody(request) ==
    IF request = "Get" THEN Quote("Get") ELSE request

(* An encoder whose failure is not looked at. *)
JsonEncodableAlways(request) == TRUE

(* serde_json::to_string(&Request { command, request }) *)
JsonEncodable(request) == request # Unencodable

JsonToString(command, request) ==
    <<"{", Quote("command"), ":", Quote(command), ",",
      Quote("request"), ":", EncodeRequestBody(request), "}">>

(* The encoding of a reply value, as the signer writes it. *)
EncodeReply(v) ==
    CASE v.tag \in {"Ok", "Err"} -> <<"{", Quote(v.tag), ":", v.body, "}">>
      [] v.tag = "None" -> <<"null">>
      [] OTHER -> <<v.body>>

NoValue == Val("", "")

(* Variants of from_str that a faulty decoder would give: one that knows   *)
(* only the Ok variant of a result, one that falls back to a default value *)
(* where the text does not decode.                                         *)
FromStrOkOnly(type, text) ==
    IF Len(text) = 5 /\ text[2] = Quote("Ok") /\ text[4] \in ReplyBodies(type, "Ok")
    THEN [ok |-> TRUE, value |-> Val("Ok", text[4])]
    ELSE IF text = <<"null">> /\ type = "OptionAddress"
         THEN [ok |-> TRUE, value |-> Val("None", "")]
         ELSE [ok |-> FALSE, value |-> NoValue]

FromStrDefault(type, text) ==
    [ok |-> TRUE, value |-> CHOOSE v \in ReplyValues(type) : TRUE]

(* serde_json::from_str::<D>(&message): [ok, value] *)

FromStr(type, text) ==
    CASE type \in {"SyncResult", "SignResult", "SignWithTransactionDataResult"} ->
            IF /\ Len(text) = 5
               /\ text[1] = "{"
               /\ text[2] \in {Quote("Ok"), Quote("Err")}
               /\ text[3] = ":"
               /\ text[5] = "}"
               /\ text[4] \in ReplyBodies(type, IF text[2] = Quote("Ok") THEN "Ok" ELSE "Err")
            THEN [ok |-> TRUE,
                  value |-> Val(IF text[2] = Quote("Ok") THEN "Ok" ELSE "Err", text[4])]
            ELSE [ok |-> FALSE, value |-> NoValue]
      [] type = "OptionAddress" ->
            IF text = <<"null">>
            THEN [ok |-> TRUE, value |-> Val("None", "")]
            ELSE IF Len(text) = 1 /\ text[1] \in ReplyBodies(type, "Some")
                 THEN [ok |-> TRUE, value |-> Val("Some", text[1])]
                 ELSE [ok |-> FALSE, value |-> NoValue]
      [] OTHER ->
            IF Len(text) = 1 /\ text[1] \in ReplyBodies(type, "Val")
            THEN [ok |-> TRUE, value |-> Val("Val", text[1])]
            ELSE [ok |-> FALSE, value |-> NoValue]

(***************************************************************************)
(* Stream items and results                                                *)
(***************************************************************************)
(* An item the stream yields: Some(Ok(Message)), Some(Err(err)) or None.   *)
(* re is the number of the exchange whose request the item answers (0 for  *)
(* an item that answers none).                                             *)
Item(kind, data, re) == [kind |-> kind, data |-> data, re |-> re]

NotRead == Item("NotRead", <<>>, 0)
StreamEnd == Item("None", <<>>, 0)
StreamError(err) == Item("Error", <<err>>, 0)

NonTextKinds == {"Binary", "Ping", "Close"}

(* Errors the WebSocket reports (tungstenite::error::Error) *)
WebSocketErrors == {"Io", "Protocol"}

(* Result<D, Error> of one call; kind Abandoned: the future was dropped    *)
(* before it returned.                                                     *)
Result(kind, value, detail) == [kind |-> kind, value |-> value, detail |-> detail]

Pending == Result("", NoValue, "")

(* from_variant!(Error, SerializationError, serde_json::Error) *)
FromSerdeError(err) == Result("SerializationError", NoValue, err)

(* A conversion that drops the error it wraps. *)
FromWebSocketErrorDropped(err) == Result("EndOfStream", NoValue, "")

(* from_variant!(Error, WebSocket, WebSocketError) *)
FromWebSocketError(err) == Result("WebSocket", NoValue, err)

VARIABLES
    pc,        \* pc[c]: where caller c's send future stands
    cur,       \* cur[c]: the exchange of caller c's live future
    ncalls,    \* exchanges started so far
    outbound,  \* frames the sink accepted, not yet read by the signer
    inbound,   \* messages the stream holds, oldest first
    open,      \* the connection is open
    last,      \* the exchange that ended last, until the next call
    prev       \* operation and outcome of the exchange that ended before

vars == <<pc, cur, ncalls, outbound, inbound, open, last, prev>>

(* One exchange: sink is what the sink answered to the send ("" not asked, *)
(* "Ok" accepted, else the error), got the item the stream yielded;        *)
(* sends and reads count the polls of the sink and of the stream.           *)
Exchange(id, op, request, frame, sink, got, result) ==
    [id |-> id, op |-> op, request |-> request, frame |-> frame,
     sink |-> sink, got |-> got, result |-> result, sends |-> 0, reads |-> 0,
     command |-> ""]

NoExchange == Exchange(0, "", "", <<>>, "", NotRead, Pending)

Summary(x) == [op |-> x.op, kind |-> x.result.kind]

Init ==
    /\ pc = [c \in Callers |-> "idle"]
    /\ cur = [c \in Callers |-> NoExchange]
    /\ ncalls = 0
    /\ outbound = <<>>
    /\ inbound = <<>>
    /\ open = TRUE
    /\ last = NoExchange
    /\ prev = Summary(NoExchange)

(* A client shared without the exclusive borrow (&self). *)
BorrowableShared == TRUE

(* &mut self: a call borrows the client exclusively while its future lives. *)
Borrowable == \A d \in Callers : pc[d] = "idle"

(* Matches with a wrong arm: any message is read as text; the end of the  *)
(* stream falls into the arm of the other messages.                       *)
MatchNextAnyMessageAsText(op, item) ==
    CASE item.kind \in {"Text"} \cup NonTextKinds ->
            LET d == FromStr(ReplyType(op), item.data)
            IN  IF d.ok THEN Result("Ok", d.value, "") ELSE FromSerdeError("from_str")
      [] item.kind = "Error" -> FromWebSocketError(item.data[1])
      [] OTHER -> Result("EndOfStream", NoValue, "")

(* A match that keeps the reply type of the exchange that succeeded before. *)
MatchNextStaleType(op, item) ==
    CASE item.kind = "Text" ->
            LET d == FromStr(ReplyType(IF prev.kind = "Ok" THEN prev.op ELSE op), item.data)
            IN  IF d.ok THEN Result("Ok", d.value, "") ELSE FromSerdeError("from_str")
      [] item.kind = "Error" -> FromWebSocketError(item.data[1])
      [] item.kind = "None" -> Result("EndOfStream", NoValue, "")
      [] OTHER -> Result("InvalidMessageFormat", NoValue, "")

(* A match that reports an error of the stream as its end. *)
MatchNextErrorAsEnd(op, item) ==
    CASE item.kind = "Text" ->
            LET d == FromStr(ReplyType(op), item.data)
            IN  IF d.ok THEN Result("Ok", d.value, "") ELSE FromSerdeError("from_str")
      [] item.kind \in NonTextKinds -> Result("InvalidMessageFormat", NoValue, "")
      [] OTHER -> Result("EndOfStream", NoValue, "")

MatchNextEndAsOther(op, item) ==
    CASE item.kind = "Text" ->
            LET d == FromStr(ReplyType(op), item.data)
            IN  IF d.ok THEN Result("Ok", d.value, "") ELSE FromSerdeError("from_str")
      [] item.kind = "Error" -> FromWebSocketError(item.data[1])
      [] OTHER -> Result("InvalidMessageFormat", NoValue, "")

(* A match that takes a Close frame for the end of the stream. *)
MatchNextCloseAsEnd(op, item) ==
    CASE item.kind = "Text" ->
            LET d == FromStr(ReplyType(op), item.data)
            IN  IF d.ok THEN Result("Ok", d.value, "") ELSE FromSerdeError("from_str")
      [] item.kind = "Error" -> FromWebSocketError(item.data[1])
      [] item.kind \in {"None", "Close"} -> Result("EndOfStream", NoValue, "")
      [] OTHER -> Result("InvalidMessageFormat", NoValue, "")

(* The arms of the match on self.0.next().await *)
MatchNext(op, item) ==
    CASE item.kind = "Text" ->
            LET d == FromStr(ReplyType(op), item.data)
            IN  IF d.ok THEN Result("Ok", d.value, "") ELSE FromSerdeError("from_str")
      [] item.kind = "Error" -> FromWebSocketError(item.data[1])
      [] item.kind = "None" -> Result("EndOfStream", NoValue, "")
      [] OTHER -> Result("InvalidMessageFormat", NoValue, "")

(* Client::send, up to its first await: the envelope is encoded; an        *)
(* encoding failure returns at once, otherwise the future waits for the    *)
(* sink.  op names the instance (the request and reply types S and D).     *)
send(c, op, command, request) ==
    /\ Borrowable
    /\ ncalls < MaxCalls
    /\ ncalls' = ncalls + 1
    /\ IF JsonEncodable(request)
       THEN /\ pc' = [pc EXCEPT ![c] = "sending"]
            /\ cur' = [cur EXCEPT ![c] =
                    [Exchange(ncalls + 1, op, request, JsonToString(command, request),
                              "", NotRead, Pending) EXCEPT !.command = command]]
            /\ last' = NoExchange
       ELSE /\ last' = [Exchange(ncalls + 1, op, request, <<>>, "", NotRead,
                                 FromSerdeError("to_string")) EXCEPT !.command = command]
            /\ UNCHANGED <<pc, cur>>
    /\ prev' = Summary(last)
    /\ UNCHANGED <<outbound, inbound, open>>

(* Wrappers with a slip: the operation's name as its tag; the unit value  *)
(* in place of GetRequest::Get.                                           *)
identity_proof_mistagged(c, request) == send(c, "identity_proof", "identity_proof", request)

address_unit_payload(c) == send(c, "address", "address", "null")

(* The six operations of signer::Connection *)
sync(c, request) == send(c, "sync", "sync", request)

sign(c, request) == send(c, "sign", "sign", request)

address(c) == send(c, "address", "address", "Get")

transaction_data(c, request) == send(c, "transaction_data", "transaction_data", request)

identity_proof(c, request) == send(c, "identity_proof", "identity", request)

sign_with_transaction_data(c, request) ==
    send(c, "sign_with_transaction_data", "sign_with_transaction_data", request)

(* self.0.send(Message::Text(..)).await: the sink accepts the frame *)
SendAccepted(c) ==
    /\ pc[c] = "sending"
    /\ outbound' = Append(outbound,
            [text |-> cur[c].frame, id |-> cur[c].id, op |-> cur[c].op,
             request |-> cur[c].request])
    /\ cur' = [cur EXCEPT ![c].sink = "Ok", ![c].sends = @ + 1]
    /\ pc' = [pc EXCEPT ![c] = "receiving"]
    /\ UNCHANGED <<ncalls, inbound, open, last, prev>>

(* A send whose error is dropped: the exchange goes on to the receive. *)
SendRejectedIgnored(c, err) ==
    /\ pc[c] = "sending"
    /\ cur' = [cur EXCEPT ![c].sink = err, ![c].sends = @ + 1]
    /\ pc' = [pc EXCEPT ![c] = "receiving"]
    /\ UNCHANGED <<ncalls, outbound, inbound, open, last, prev>>

(* self.0.send(..).await?: the sink reports an error *)
SendRejected(c, err) ==
    /\ pc[c] = "sending"
    /\ last' = [cur[c] EXCEPT !.sink = err, !.sends = @ + 1,
                              !.result = FromWebSocketError(err)]
    /\ cur' = [cur EXCEPT ![c] = NoExchange]
    /\ pc' = [pc EXCEPT ![c] = "idle"]
    /\ UNCHANGED <<ncalls, outbound, inbound, open, prev>>

(* A return that sends the request again when the first reply is no      *)
(* success.                                                                *)
ReturnRetrying(c, item) ==
    IF MatchNext(cur[c].op, item).kind # "Ok" /\ cur[c].reads = 0
    THEN /\ cur' = [cur EXCEPT ![c].got = item, ![c].reads = @ + 1]
         /\ pc' = [pc EXCEPT ![c] = "sending"]
         /\ last' = last
    ELSE /\ last' = [cur[c] EXCEPT !.got = item, !.reads = @ + 1,
                                   !.result = MatchNext(cur[c].op, item)]
         /\ cur' = [cur EXCEPT ![c] = NoExchange]
         /\ pc' = [pc EXCEPT ![c] = "idle"]

(* The future returns what the match makes of the item the stream yielded. *)
Return(c, item) ==
    /\ last' = [cur[c] EXCEPT !.got = item, !.reads = @ + 1,
                              !.result = MatchNext(cur[c].op, item)]
    /\ cur' = [cur EXCEPT ![c] = NoExchange]
    /\ pc' = [pc EXCEPT ![c] = "idle"]

(* A receive that peeks: a message the match rejects stays in the stream. *)
ReceiveMessageKeepsRejected(c) ==
    /\ pc[c] = "receiving"
    /\ inbound # <<>>
    /\ Return(c, Head(inbound))
    /\ inbound' = IF MatchNext(cur[c].op, Head(inbound)).kind = "Ok"
                  THEN Tail(inbound) ELSE inbound
    /\ UNCHANGED <<ncalls, outbound, open, prev>>

(* self.0.next().await yields Some(Ok(message)): the oldest message *)
ReceiveMessage(c) ==
    /\ pc[c] = "receiving"
    /\ inbound # <<>>
    /\ Return(c, Head(inbound))
    /\ inbound' = Tail(inbound)
    /\ UNCHANGED <<ncalls, outbound, open, prev>>

(* self.0.next().await yields Some(Err(err)): reading the socket failed *)
ReceiveError(c, err) ==
    /\ pc[c] = "receiving"
    /\ inbound = <<>>
    /\ Return(c, StreamError(err))
    /\ UNCHANGED <<ncalls, outbound, inbound, open, prev>>

(* A receive that does not wait: with no message ready it reports the end *)
(* of the stream.                                                          *)
ReceiveEndWithoutWaiting(c) ==
    /\ pc[c] = "receiving"
    /\ inbound = <<>>
    /\ Return(c, StreamEnd)
    /\ UNCHANGED <<ncalls, outbound, inbound, open, prev>>

(* self.0.next().await yields None: the stream ended *)
ReceiveEnd(c) ==
    /\ pc[c] = "receiving"
    /\ inbound = <<>>
    /\ ~open
    /\ Return(c, StreamEnd)
    /\ UNCHANGED <<ncalls, outbound, inbound, open, prev>>

(* The caller drops the future at one of its two await points. *)
Abandon(c) ==
    /\ pc[c] \in {"sending", "receiving"}
    /\ last' = [cur[c] EXCEPT !.result = Result("Abandoned", NoValue, "")]
    /\ cur' = [cur EXCEPT ![c] = NoExchange]
    /\ pc' = [pc EXCEPT ![c] = "idle"]
    /\ UNCHANGED <<ncalls, outbound, inbound, open, prev>>

(***************************************************************************)
(* The environment: the remote signer and the connection                   *)
(***************************************************************************)
MalformedText == <<"{">>

(* A decoder without deny_unknown_fields: fields after the two are        *)
(* skipped.                                                                *)
DecodeRequestLenient(text) ==
    IF /\ Len(text) >= 9
       /\ text[1] = "{"
       /\ text[2] = Quote("command")
       /\ text[3] = ":"
       /\ text[5] = ","
       /\ text[6] = Quote("request")
       /\ text[7] = ":"
       /\ text[Len(text)] = "}"
    THEN [ok |-> TRUE, command |-> text[4], request |-> text[8]]
    ELSE [ok |-> FALSE, command |-> "", request |-> ""]

(* The signer decodes a frame as a Request, with deny_unknown_fields: the  *)
(* object has the fields command and request and no other.                 *)
DecodeRequest(text) ==
    IF /\ Len(text) = 9
       /\ text[1] = "{"
       /\ text[2] = Quote("command")
       /\ text[3] = ":"
       /\ text[5] = ","
       /\ text[6] = Quote("request")
       /\ text[7] = ":"
       /\ text[9] = "}"
    THEN [ok |-> TRUE, command |-> text[4], request |-> text[8]]
    ELSE [ok |-> FALSE, command |-> "", request |-> ""]

(* The request value a payload decodes to: the inverse reading of a unit  *)
(* variant's name, any other payload is the opaque value itself.           *)
DecodeRequestBody(token) ==
    IF token = Quote("Get") THEN "Get" ELSE token

(* The reply types the signer answers a command with. *)
CommandReplyTypes(command) ==
    CASE command = Quote("sync") -> {"SyncResult"}
      [] command = Quote("sign") -> {"SignResult"}
      [] command = Quote("address") -> {"OptionAddress"}
      [] command = Quote("transaction_data") -> {"TransactionDataResponse"}
      [] command = Quote("identity") -> {"IdentityResponse"}
      [] command = Quote("sign_with_transaction_data") -> {"SignWithTransactionDataResult"}
      [] OTHER -> {}

(* What the signer may write in answer to a frame: a reply of the type of  *)
(* the frame's command, or a message that is no such reply.                *)
Answers(text) ==
    {[kind |-> "Text", data |-> EncodeReply(v)] :
        v \in UNION {ReplyValues(t) : t \in CommandReplyTypes(DecodeRequest(text).command)}}
    \cup {[kind |-> "Text", data |-> t] : t \in {MalformedText, <<"null">>}}
    \cup {[kind |-> "Binary", data |-> <<"null">>]}
    \cup {[kind |-> k, data |-> <<>>] : k \in NonTextKinds \ {"Binary"}}

(* The signer reads the oldest frame and writes one message in answer. *)
ServerAnswer ==
    /\ open
    /\ outbound # <<>>
    /\ \E m \in Answers(Head(outbound).text) :
          inbound' = Append(inbound, Item(m.kind, m.data, Head(outbound).id))
    /\ outbound' = Tail(outbound)
    /\ UNCHANGED <<pc, cur, ncalls, open, last, prev>>

(* The connection closes: nothing more is delivered. *)
Close ==
    /\ open
    /\ open' = FALSE
    /\ UNCHANGED <<pc, cur, ncalls, outbound, inbound, last, prev>>

(* A caller invokes one of the six operations. *)
Calls ==
    \/ \E c \in Callers, request \in RequestValues("sync") : sync(c, request)
    \/ \E c \in Callers, request \in RequestValues("sign") : sign(c, request)
    \/ \E c \in Callers : address(c)
    \/ \E c \in Callers, request \in RequestValues("transaction_data") :
            transaction_data(c, request)
    \/ \E c \in Callers, request \in RequestValues("identity_proof") :
            identity_proof(c, request)
    \/ \E c \in Callers, request \in RequestValues("sign_with_transaction_data") :
            sign_with_transaction_data(c, request)

(* A future advances or is dropped; the signer answers; the connection    *)
(* closes.                                                                 *)
Events ==
    \/ \E c \in Callers : SendAccepted(c)
    \/ \E c \in Callers, err \in WebSocketErrors : SendRejected(c, err)
    \/ \E c \in Callers : ReceiveMessage(c)
    \/ \E c \in Callers, err \in WebSocketErrors : ReceiveError(c, err)
    \/ \E c \in Callers : ReceiveEnd(c)
    \/ \E c \in Callers : Abandon(c)
    \/ ServerAnswer
    \/ Close

Next == Calls \/ Events

Spec == Init /\ [][Next]_vars

(* The channel answers: the sink resolves a pending send, the stream       *)
(* resolves a pending next().                                              *)
SinkResolves(c) == SendAccepted(c) \/ \E err \in WebSocketErrors : SendRejected(c, err)

StreamResolves(c) ==
    ReceiveMessage(c) \/ (\E err \in WebSocketErrors : ReceiveError(c, err)) \/ ReceiveEnd(c)

(* The channel eventually answers every pending send and every pending     *)
(* next().                                                                 *)
FairNext == (ncalls < MaxFairCalls /\ Calls) \/ Events

FairSpec ==
    /\ Init
    /\ [][FairNext]_vars
    /\ \A c \in Callers : WF_vars(SinkResolves(c)) /\ WF_vars(StreamResolves(c))

(***************************************************************************)
(* Properties                                                              *)
(***************************************************************************)
AllReplyValues == UNION {ReplyValues(t) : t \in ReplyTypes}

(* C1: for each operation and each value v of its reply type, when the     *)
(* sink accepted the send and the next item of the stream is a text        *)
(* message carrying the encoding of v, the call returns Ok(v).             *)
C1_EchoedReplyReturned ==
    \A v \in AllReplyValues :
        (/\ last.sink = "Ok"
         /\ last.got.kind = "Text"
         /\ v \in ReplyValues(ReplyType(last.op))
         /\ last.got.data = EncodeReply(v))
        => last.result = Result("Ok", v, "")

C1_Witness ==
    /\ last.op = "sign_with_transaction_data"
    /\ last.sink = "Ok"
    /\ last.got.kind = "Text"
    /\ last.got.data = EncodeReply(Val("Err", "SignError#1"))
    /\ last.result = Result("Ok", Val("Err", "SignError#1"), "")

(* C2: when the sink accepted the send and the next item is a message that *)
(* is not text, whatever it carries, the call fails with                   *)
(* InvalidMessageFormat: no success, no other error.                       *)
C2_NonTextIsInvalidMessageFormat ==
    (last.sink = "Ok" /\ last.got.kind \notin {"Text", "Error", "None", "NotRead"})
    => last.result = Result("InvalidMessageFormat", NoValue, "")

C2_Witness ==
    /\ last.op = "address"
    /\ last.got.kind = "Binary"
    /\ last.got.data = EncodeReply(Val("None", ""))
    /\ last.result.kind = "InvalidMessageFormat"

(* C3: when the sink accepted the send and the stream ends without         *)
(* yielding a message, the call fails with EndOfStream.                    *)
C3_ClosedStreamIsEndOfStream ==
    (last.sink = "Ok" /\ last.got.kind = "None")
    => last.result = Result("EndOfStream", NoValue, "")

C3_Witness ==
    /\ last.op = "transaction_data"
    /\ last.sink = "Ok"
    /\ last.got = StreamEnd
    /\ ~open
    /\ last.result.kind = "EndOfStream"

(* C4: when the next item is a text message that is not the encoding of a  *)
(* value of the operation's reply type, the call fails with                *)
(* SerializationError; a success carries the value the text encodes, never *)
(* another one.                                                            *)
C4_UndecodableTextIsSerializationError ==
    /\ (/\ last.sink = "Ok"
        /\ last.got.kind = "Text"
        /\ last.got.data \notin {EncodeReply(v) : v \in ReplyValues(ReplyType(last.op))})
       => last.result.kind = "SerializationError"
    /\ last.result.kind = "Ok"
       => /\ last.got.kind = "Text"
          /\ last.result.value \in ReplyValues(ReplyType(last.op))
          /\ last.got.data = EncodeReply(last.result.value)

C4_Witness ==
    /\ last.op = "sync"
    /\ last.got.kind = "Text"
    /\ last.got.data = EncodeReply(Val("None", ""))
    /\ last.result.kind = "SerializationError"

(* C5: an error the channel reports is returned as Error::WebSocket        *)
(* wrapping that error, when the sink reports it and when the stream       *)
(* reports it.                                                             *)
C5_ChannelErrorIsWebSocket ==
    /\ last.sink \in WebSocketErrors
       => last.result = Result("WebSocket", NoValue, last.sink)
    /\ last.got.kind = "Error"
       => last.result = Result("WebSocket", NoValue, last.got.data[1])

C5_Witness ==
    /\ prev.kind = "WebSocket"
    /\ last.sink = "Ok"
    /\ last.got = StreamError("Protocol")
    /\ last.result = Result("WebSocket", NoValue, "Protocol")

(* The command identifier the interface fixes for each operation. *)
FixedCommand(op) ==
    CASE op = "sync" -> "sync"
      [] op = "sign" -> "sign"
      [] op = "address" -> "address"
      [] op = "transaction_data" -> "transaction_data"
      [] op = "identity_proof" -> "identity"
      [] op = "sign_with_transaction_data" -> "sign_with_transaction_data"

(* The frame text is the envelope of operation op with payload request. *)
Tagged(op, request, text) ==
    LET d == DecodeRequest(text)
    IN  /\ d.ok
        /\ d.command = Quote(FixedCommand(op))
        /\ d.request = EncodeRequestBody(request)

(* C6: every frame handed to the sink is an object of the two fields       *)
(* command and request, tagged with the fixed command identifier of the    *)
(* operation that sent it and carrying that call's request.                *)
C6_FramesCarryOwnCommand ==
    /\ \A i \in 1..Len(outbound) :
            Tagged(outbound[i].op, outbound[i].request, outbound[i].text)
    /\ \A c \in Callers :
            pc[c] # "idle" => Tagged(cur[c].op, cur[c].request, cur[c].frame)
    /\ last.sink # "" => Tagged(last.op, last.request, last.frame)

C6_Witness ==
    \E i \in 1..Len(outbound) :
        /\ outbound[i].op = "identity_proof"
        /\ outbound[i].request = "IdentityRequest#1"
        /\ DecodeRequest(outbound[i].text).command = Quote("identity")
        /\ DecodeRequest(outbound[i].text).request = "IdentityRequest#1"

AddressFrame ==
    <<"{", "\"command\"", ":", "\"address\"", ",", "\"request\"", ":", "\"Get\"", "}">>

(* C7: a call of address sends the frame with command "address" and the    *)
(* Get marker as payload, and returns None when the reply is the text      *)
(* null.                                                                   *)
C7_AddressSendsGetReturnsNone ==
    /\ \A i \in 1..Len(outbound) :
            outbound[i].op = "address" => outbound[i].text = AddressFrame
    /\ (last.op = "address" /\ last.sink = "Ok")
       => /\ last.frame = AddressFrame
          /\ last.got = Item("Text", <<"null">>, last.got.re)
             => last.result = Result("Ok", Val("None", ""), "")

C7_Witness ==
    /\ last.op = "address"
    /\ last.frame = AddressFrame
    /\ last.got = Item("Text", <<"null">>, last.id)
    /\ last.result = Result("Ok", Val("None", ""), "")

(* What one exchange returns, from its own operation and from what the     *)
(* channel did for it.                                                     *)
OwnOutcome(op, sink, got) ==
    CASE sink \in WebSocketErrors -> Result("WebSocket", NoValue, sink)
      [] got.kind = "Text" ->
            IF \E v \in ReplyValues(ReplyType(op)) : EncodeReply(v) = got.data
            THEN Result("Ok",
                        CHOOSE v \in ReplyValues(ReplyType(op)) : EncodeReply(v) = got.data, "")
            ELSE Result("SerializationError", NoValue, "from_str")
      [] got.kind = "Error" -> Result("WebSocket", NoValue, got.data[1])
      [] got.kind = "None" -> Result("EndOfStream", NoValue, "")
      [] OTHER -> Result("InvalidMessageFormat", NoValue, "")

(* C8: in any sequence of exchanges on one client, each exchange sends its *)
(* own tagged request and returns what its own operation makes of what the *)
(* channel delivered to it, whatever the exchange before it was and        *)
(* however it ended.                                                       *)
C8_ExchangesAreIndependent ==
    (last.sink # "" /\ last.result.kind # "Abandoned")
    => /\ Tagged(last.op, last.request, last.frame)
       /\ last.result = OwnOutcome(last.op, last.sink, last.got)

C8_Witness ==
    /\ prev = [op |-> "sync", kind |-> "Ok"]
    /\ last.id = 2
    /\ last.op = "sign"
    /\ Tagged("sign", "SignRequest#1", last.frame)
    /\ last.got = Item("Text", EncodeReply(Val("Ok", "SignResponse#1")), 2)
    /\ last.result = Result("Ok", Val("Ok", "SignResponse#1"), "")

(* C9: the message an exchange reads is the signer's answer to that        *)
(* exchange's own request, never the answer to an earlier request.         *)
C9_ReplyAnswersOwnRequest ==
    last.got.kind \in {"Text"} \cup NonTextKinds => last.got.re = last.id

(* C10: at most one exchange is in flight: at most one future of send is   *)
(* alive, and while an exchange waits for its reply no frame is sent and   *)
(* no message is read by another exchange.                                 *)
InFlight == {c \in Callers : pc[c] # "idle"}

C10_OneExchangeInFlight ==
    /\ [](Cardinality(InFlight) <= 1)
    /\ [][\A c \in Callers :
            (pc[c] = "receiving" /\ pc'[c] = "receiving")
            => /\ Len(outbound') <= Len(outbound)
               /\ Len(inbound') >= Len(inbound)]_vars

C10_Witness ==
    \E c \in Callers :
        /\ pc[c] = "receiving"
        /\ cur[c].id = 2
        /\ inbound # <<>>
        /\ \A d \in Callers \ {c} : pc[d] = "idle"

(* The connection is dead: closed, with nothing left to deliver. *)
Dead == ~open /\ inbound = <<>>

(* C11: closed is terminal.  An exchange returns EndOfStream only on a     *)
(* dead connection (so does a transport error that is unrecoverable); a    *)
(* dead connection stays dead, and no exchange that ends on it returns a   *)
(* successful reply.                                                       *)
C11_ClosedIsTerminal ==
    /\ [](last.result.kind = "EndOfStream" => Dead)
    /\ [](prev.kind = "EndOfStream" => Dead /\ last.result.kind # "Ok")
    /\ [][Dead => /\ Dead'
                  /\ ~(last' # last /\ last'.result.kind = "Ok")]_vars

C11_Witness ==
    /\ prev.kind = "EndOfStream"
    /\ last.id = 2
    /\ last.sink = "Ok"
    /\ last.reads = 1
    /\ last.result.kind = "EndOfStream"

(* The exchanges the state records: the live ones and the one that ended. *)
Recorded == {cur[c] : c \in Callers} \cup {last}

(* C12: an exchange is single-shot: one call polls the sink at most once   *)
(* and the stream at most once, its frame is handed to the sink at most    *)
(* once, and an exchange that ended, with an error or not, does nothing    *)
(* more.                                                                   *)
C12_SingleShot ==
    /\ \A x \in Recorded : x.sends <= 1 /\ x.reads <= 1 /\ (x.reads = 1 => x.sends = 1)
    /\ \A i, j \in 1..Len(outbound) : outbound[i].id = outbound[j].id => i = j
    /\ \A c \in Callers : pc[c] # "idle" => cur[c].reads = 0 /\ cur[c].id # last.id
    /\ \A c \in Callers : pc[c] = "sending" => cur[c].sends = 0

C12_Witness ==
    /\ last.result.kind = "SerializationError"
    /\ last.sends = 1
    /\ last.reads = 1
    /\ open
    /\ outbound = <<>>
    /\ \A c \in Callers : pc[c] = "idle"

(* The text of an object with one more field after the last one. *)
WithExtraField(text) ==
    SubSeq(text, 1, Len(text) - 1) \o <<",", Quote("id"), ":", "0", "}">>

Fields(text) == {text[i] : i \in {j \in 2..Len(text) : text[j - 1] \in {"{", ","}}}

(* The envelope of x decodes to x's command and request, is an object of   *)
(* the two fields command and request, and is rejected with a field added. *)
RoundTrips(x) ==
    LET d == DecodeRequest(x.frame)
    IN  /\ d.ok
        /\ d.command = Quote(x.command)
        /\ DecodeRequestBody(d.request) = x.request
        /\ Fields(x.frame) = {Quote("command"), Quote("request")}
        /\ ~DecodeRequest(WithExtraField(x.frame)).ok

(* C13: encoding an envelope of command c and payload p and decoding the   *)
(* text as an envelope gives back c and p; the text has exactly the fields *)
(* command and request, and the decoder rejects it with a field added.     *)
C13_EnvelopeRoundTrip ==
    \A x \in Recorded : x.frame # <<>> => RoundTrips(x)

C13_Witness ==
    \E c \in Callers :
        /\ pc[c] = "receiving"
        /\ cur[c].command = "address"
        /\ cur[c].request = "Get"
        /\ DecodeRequest(cur[c].frame) =
                [ok |-> TRUE, command |-> Quote("address"), request |-> Quote("Get")]
        /\ ~DecodeRequest(WithExtraField(cur[c].frame)).ok

ErrorKinds == {"InvalidMessageFormat", "EndOfStream", "SerializationError", "WebSocket"}

(* The exchange x returned (it was not dropped). *)
Returned(x) == x.result.kind \notin {"", "Abandoned"}

(* C14: the steps run in the order encode, send, receive, decode and the   *)
(* call returns the error of the first step that fails, running no later   *)
(* step: a returned call carries the decoded reply or one of the four      *)
(* errors; a call whose send failed has not read the stream, and the       *)
(* queued messages are as they were.                                       *)
C14_FirstErrorReturned ==
    /\ [](Returned(last) =>
            /\ last.result.kind \in {"Ok"} \cup ErrorKinds
            /\ last.frame = <<>> =>
                    /\ last.result = Result("SerializationError", NoValue, "to_string")
                    /\ last.sends = 0 /\ last.reads = 0
            /\ (last.frame # <<>> /\ last.sink # "Ok") =>
                    /\ last.sink \in WebSocketErrors
                    /\ last.result = Result("WebSocket", NoValue, last.sink)
                    /\ last.sends = 1 /\ last.reads = 0 /\ last.got = NotRead
            /\ last.sink = "Ok" =>
                    /\ last.sends = 1 /\ last.reads = 1 /\ last.got # NotRead
                    /\ last.got.kind # "Text" =>
                            last.result.kind \in ErrorKinds \ {"SerializationError"}
                    /\ last.got.kind = "Text" =>
                            last.result.kind \in {"Ok", "SerializationError"})
    /\ [][\A c \in Callers :
            (pc[c] = "sending" /\ pc'[c] = "idle") => inbound' = inbound]_vars

C14_Witness ==
    /\ last.sink = "Io"
    /\ last.result = Result("WebSocket", NoValue, "Io")
    /\ last.got = NotRead
    /\ inbound # <<>>

(* C15: a request that cannot be encoded fails with SerializationError     *)
(* before the channel is touched: no frame is built or sent for it, the    *)
(* stream is not read, and the step that returns the error leaves the      *)
(* channel as it was.                                                      *)
C15_EncodeFailureLeavesChannel ==
    /\ [](/\ last.request = Unencodable =>
                /\ last.result = Result("SerializationError", NoValue, "to_string")
                /\ last.frame = <<>>
                /\ last.sink = "" /\ last.sends = 0
                /\ last.got = NotRead /\ last.reads = 0
          /\ \A c \in Callers : cur[c].request # Unencodable
          /\ \A i \in 1..Len(outbound) : outbound[i].request # Unencodable)
    /\ [][(last' # last /\ last'.request = Unencodable) =>
            /\ outbound' = outbound
            /\ inbound' = inbound
            /\ open' = open
            /\ pc' = pc]_vars

C15_Witness ==
    /\ last.op = "sign"
    /\ last.request = Unencodable
    /\ last.result.kind = "SerializationError"
    /\ last.id = 2
    /\ inbound # <<>>
    /\ inbound[1].re = 1

(* C16: an exchange ends only on an event of the channel.  When the        *)
(* channel eventually answers the send and eventually yields a message, an *)
(* error or the end of the stream, every started exchange eventually       *)
(* returns; a waiting exchange leaves its await only because the sink      *)
(* answered, the stream yielded its oldest message, reported an error or   *)
(* ended, or because the caller dropped it: there is no timeout.           *)
C16_ReturnsOnChannelEventOnly ==
    /\ \A c \in Callers : (pc[c] # "idle") ~> (pc[c] = "idle")
    /\ [][\A c \in Callers :
            /\ (pc[c] = "sending" /\ pc'[c] # "sending") =>
                    \/ pc'[c] = "receiving" /\ cur'[c].sink = "Ok"
                    \/ pc'[c] = "idle" /\ last'.sink \in WebSocketErrors
                    \/ pc'[c] = "idle" /\ last'.result.kind = "Abandoned"
            /\ (pc[c] = "receiving" /\ pc'[c] # "receiving") =>
                    \/ inbound # <<>> /\ last'.got = Head(inbound)
                    \/ last'.got.kind = "Error"
                    \/ last'.got.kind = "None" /\ ~open /\ inbound = <<>>
                    \/ last'.result.kind = "Abandoned"]_vars

C16_Witness ==
    \E c \in Callers :
        /\ pc[c] = "receiving"
        /\ cur[c].sink = "Ok"
        /\ open
        /\ inbound = <<>>

MessageKinds == {"Text"} \cup NonTextKinds

(* C17: an exchange that reads a message takes the oldest one and only     *)
(* that one, also when it rejects it: the message leaves the stream, the   *)
(* messages behind it stay in order; no other step of the client removes a *)
(* message, in particular not the call or the send.                        *)
C17_ConsumesOldestMessageOnly ==
    [][/\ (last' # last /\ last'.got.kind \in MessageKinds) =>
            /\ inbound # <<>>
            /\ last'.got = Head(inbound)
            /\ inbound' = Tail(inbound)
       /\ ~(last' # last /\ last'.got.kind \in MessageKinds) =>
            \/ inbound' = inbound
            \/ /\ Len(inbound') = Len(inbound) + 1
               /\ SubSeq(inbound', 1, Len(inbound)) = inbound]_vars

C17_Witness ==
    /\ last.id = 2
    /\ last.got.re = 1
    /\ last.result.kind = "SerializationError"
    /\ Len(inbound) = 1
    /\ inbound[1].re = 2

(* C18: what an exchange that read the stream returns is fixed by what the *)
(* stream yielded, and the four cases cover every item and exclude each    *)
(* other: a text message gives the decoded reply or SerializationError, a  *)
(* message of any other kind InvalidMessageFormat, a stream error          *)
(* WebSocket with that error, the end of the stream EndOfStream.           *)
C18_ReceiveOutcomesPartition ==
    \A x \in {last} : x.reads = 1 =>
        /\ x.got.kind \in MessageKinds \cup {"Error", "None"}
        /\ x.got.kind = "Text" <=> x.result.kind \in {"Ok", "SerializationError"}
        /\ x.got.kind \in NonTextKinds <=> x.result.kind = "InvalidMessageFormat"
        /\ x.got.kind = "Error" <=> x.result.kind = "WebSocket"
        /\ x.got.kind = "Error" => x.result.detail = x.got.data[1]
        /\ x.got.kind = "None" <=> x.result.kind = "EndOfStream"
        /\ x.got.kind = "Text" =>
                LET d == FromStr(ReplyType(x.op), x.got.data)
                IN  /\ x.result.kind = "Ok" <=> d.ok
                    /\ d.ok => x.result.value = d.value

C18_Witness ==
    /\ last.reads = 1
    /\ last.got.kind = "Close"
    /\ last.result.kind = "InvalidMessageFormat"
    /\ inbound # <<>>

=============================================================================
